---- MODULE Spec2Model ----
(***************************************************************************)
(* LegacyRefactor AI: the four-stage LLM migration pipeline                *)
(* (services/migrationService.ts), the provider factory it calls, and the  *)
(* React App component (App.tsx) that drives it and owns the Run State.    *)
(*                                                                         *)
(* A text is a sequence of pieces.  A piece is either one character of the *)
(* markup the code's regular expressions look at, or one whole JSON        *)
(* document (an atomic piece that holds no markup character).              *)
(***************************************************************************)
EXTENDS Integers, Sequences, FiniteSets, TLC

\* ------------------------------------------------------------------ bounds
\* Number of handleStartAnalysis invocations followed in one behaviour.
MaxRuns == 2
\* Number of page-level user gestures besides Start (typing into the editor,
\* New Analysis, the two demo buttons, the Settings button) in one behaviour.
MaxGestures == 2
\* Number of starts followed in the behaviours of the single-run
\* specifications (SpecSettings, SpecCoder, SpecArchitect).
MaxSettingsRuns == 1
\* Number of parts (markers, documents, file blocks) a response text of the
\* markup specifications is put together from.
MaxParts == 3

\* Nesting depth of the response schemas given to the LLM clients.
MaxDepth == 2

\* ------------------------------------------------------------- text helpers
WS == {" ", "\n", "\t"}

ThinkOpen == <<"<", "t", "h", "i", "n", "k", ">">>
ThinkClose == <<"<", "/", "t", "h", "i", "n", "k", ">">>
\* the backtick character (written BT: the piece is one character)
BT == "BACKTICK"
Fence == <<BT, BT, BT>>
LangJson == <<"j", "s", "o", "n">>
LangPython == <<"p", "y", "t", "h", "o", "n">>
LangBash == <<"b", "a", "s", "h">>

\* p occurs in t starting at index i
StartsWithAt(t, i, p) ==
    /\ i >= 1
    /\ i + Len(p) - 1 <= Len(t)
    /\ \A k \in 1..Len(p) : t[i + k - 1] = p[k]

Min(S) == CHOOSE x \in S : \A y \in S : x <= y

\* String.prototype.trim
RECURSIVE TrimLeft(_)
TrimLeft(t) ==
    IF t # <<>> /\ Head(t) \in WS THEN TrimLeft(Tail(t)) ELSE t

RECURSIVE TrimRight(_)
TrimRight(t) ==
    IF t # <<>> /\ t[Len(t)] \in WS THEN TrimRight(SubSeq(t, 1, Len(t) - 1)) ELSE t

Trim(t) == TrimRight(TrimLeft(t))

\* text.replace(/<think>[\s\S]*?<\/think>/g, ''), scanning from index i
RECURSIVE RemoveThink(_, _)
RemoveThink(t, i) ==
    IF i > Len(t) THEN <<>>
    ELSE LET closes == {j \in (i + Len(ThinkOpen))..Len(t) : StartsWithAt(t, j, ThinkClose)}
         IN  IF StartsWithAt(t, i, ThinkOpen) /\ closes # {}
             THEN RemoveThink(t, Min(closes) + Len(ThinkClose))
             ELSE <<t[i]>> \o RemoveThink(t, i + 1)

\* length of the optional language tag (json|python|bash)? at index i
LangLenAt(t, i) ==
    IF StartsWithAt(t, i, LangJson) THEN Len(LangJson)
    ELSE IF StartsWithAt(t, i, LangPython) THEN Len(LangPython)
    ELSE IF StartsWithAt(t, i, LangBash) THEN Len(LangBash)
    ELSE 0

\* cleaned.replace(/BT BT BT (json|python|bash)?/g, ''), scanning from index i
RECURSIVE RemoveFences(_, _)
RemoveFences(t, i) ==
    IF i > Len(t) THEN <<>>
    ELSE IF StartsWithAt(t, i, Fence)
         THEN RemoveFences(t, i + Len(Fence) + LangLenAt(t, i + Len(Fence)))
         ELSE <<t[i]>> \o RemoveFences(t, i + 1)

cleanLlmOutput(text) ==
    LET cleaned == Trim(RemoveThink(text, 1))
    IN  Trim(RemoveFences(cleaned, 1))

\* ------------------------------------------------------------------- JSON
\* The JSON documents a provider response may hold, each an atomic piece.
DocNull == "null"
DocEmptyObject == "{}"
DocPlanNoDeps == "{\"summary\":\"s\",\"variables\":[],\"security_concerns\":[],\"migration_strategy\":\"m\",\"required_files\":[]}"
DocPlanDep == "{\"summary\":\"s\",\"variables\":[],\"security_concerns\":[],\"migration_strategy\":\"m\",\"required_files\":[\"includes/auth_logic.php\"]}"
DocPlanMain == "{\"summary\":\"s\",\"variables\":[],\"security_concerns\":[],\"migration_strategy\":\"m\",\"required_files\":[\"main.legacy\"]}"
DocFiles == "{\"files\":[{\"filename\":\"a\",\"content\":\"b\"}]}"
DocNoFiles == "{\"files\":[]}"
DocDupFiles == "{\"files\":[{\"filename\":\"a\",\"content\":\"b\"},{\"filename\":\"a\",\"content\":\"c\"}]}"
DocFilesNull == "{\"files\":[{\"filename\":\"a\",\"content\":\"b\"},null]}"
DocFilesPartial == "{\"files\":[{\"filename\":\"\",\"content\":\"b\"},{\"filename\":\"e\",\"content\":\"f\"}]}"
DocAudit == "{\"comments\":\"c\",\"security_issues\":[]}"

JNull == [kind |-> "null"]
JSyntaxError == [kind |-> "SyntaxError"]
JObject(f) == [kind |-> "object", fields |-> f]
NoFields == [k \in {} |-> <<>>]
PlanFields(rf) ==
    [summary |-> <<"s">>, variables |-> <<>>, security_concerns |-> <<>>,
     migration_strategy |-> <<"m">>, required_files |-> rf]

\* JSON.parse: the value of a text that is one JSON document; any other text
\* of the markup alphabet (which can spell no JSON literal) is a SyntaxError.
JsonParse(text) ==
    IF Len(text) # 1 THEN JSyntaxError
    ELSE CASE text[1] = DocNull -> JNull
           [] text[1] = DocEmptyObject -> JObject(NoFields)
           [] text[1] = DocPlanNoDeps -> JObject(PlanFields(<<>>))
           [] text[1] = DocPlanDep -> JObject(PlanFields(<<"includes/auth_logic.php">>))
           [] text[1] = DocPlanMain -> JObject(PlanFields(<<"main.legacy">>))
           [] text[1] = DocFiles ->
                JObject([files |-> <<[filename |-> <<"a">>, content |-> <<"b">>]>>])
           [] text[1] = DocNoFiles -> JObject([files |-> <<>>])
           [] text[1] = DocDupFiles ->
                JObject([files |-> <<[filename |-> <<"a">>, content |-> <<"b">>],
                                     [filename |-> <<"a">>, content |-> <<"c">>]>>])
           [] text[1] = DocFilesNull ->
                JObject([files |-> <<[filename |-> <<"a">>, content |-> <<"b">>], JNull>>])
           [] text[1] = DocFilesPartial ->
                JObject([files |-> <<[filename |-> <<>>, content |-> <<"b">>],
                                     [filename |-> <<"e">>, content |-> <<"f">>]>>])
           [] text[1] = DocAudit -> JObject([comments |-> <<"c">>, security_issues |-> <<>>])
           [] OTHER -> JSyntaxError

\* o.k is defined and truthy (o an object value)
HasField(o, k) == o.kind = "object" /\ k \in DOMAIN o.fields

\* ------------------------------------------------------------ credentials
Providers == {"google", "openrouter"}
NoKey == ""

\* utils/settingsManager.ts getStoredApiKey: localStorage first, then the
\* build environment; NoKey stands for undefined.
getStoredApiKey(provider, ls, pe) ==
    IF ls[provider] # NoKey THEN ls[provider] ELSE pe[provider]

resolveApiKeyStoredFirst(provider, sessionKeys, ls, pe) ==
    IF getStoredApiKey(provider, ls, pe) # NoKey THEN getStoredApiKey(provider, ls, pe)
    ELSE sessionKeys[provider]

\* migrationService.ts resolveApiKey
resolveApiKey(provider, sessionKeys, ls, pe) ==
    IF sessionKeys[provider] # NoKey THEN sessionKeys[provider]
    ELSE getStoredApiKey(provider, ls, pe)

\* services/llmFactory.ts createLlmClient: the key the client is built with
\* (NoKey: the factory throws "API Key missing").
createLlmClient(provider, apiKey, pe, pub) ==
    IF apiKey # NoKey THEN apiKey
    ELSE IF pe[provider] # NoKey THEN pe[provider]
    ELSE pub[provider]

\* ------------------------------------------------------- Coder extraction
Hashes == <<"#", "#", "#">>
Lower == {"a", "b", "c", "d", "e", "f", "g", "h", "i", "j", "k", "l", "m",
          "n", "o", "p", "q", "r", "s", "t", "u", "v", "w", "x", "y", "z"}
Upper == {"A", "B", "C", "D", "E", "F", "G", "H", "I", "J", "K", "L", "M",
          "N", "O", "P", "Q", "R", "S", "T", "U", "V", "W", "X", "Y", "Z"}
Digits == {"0", "1", "2", "3", "4", "5", "6", "7", "8", "9"}
\* [a-zA-Z0-9_\-\./]
NameChars == Lower \cup Upper \cup Digits \cup {"_", "-", ".", "/"}

\* first index >= i whose piece is not in S (Len(t) + 1 when there is none)
RunEnd(t, i, S) ==
    Min({j \in i..(Len(t) + 1) : j = Len(t) + 1 \/ t[j] \notin S})

EmptyFileMap == [n \in {} |-> <<>>]
\* fileMap[name] = content
SetFile(fileMap, name, content) ==
    [n \in DOMAIN fileMap \cup {name} |-> IF n = name THEN content ELSE fileMap[n]]

\* One attempt of
\*   ###\s+([a-zA-Z0-9_\-\./]+)\s+BT{3}(?:python|bash|json)?\s*([\s\S]*?)BT{3}
\* at index i.  The character classes of adjacent parts are disjoint, so the
\* greedy parts have one possible extent and the lazy body ends at the first
\* closing fence.
RegexMatchAt(t, i) ==
    LET k1 == RunEnd(t, i + Len(Hashes), WS)
        k2 == RunEnd(t, k1, NameChars)
        k3 == RunEnd(t, k2, WS)
        k4 == k3 + Len(Fence) + LangLenAt(t, k3 + Len(Fence))
        k5 == RunEnd(t, k4, WS)
        closes == {j \in k5..Len(t) : StartsWithAt(t, j, Fence)}
        ok == /\ StartsWithAt(t, i, Hashes)
              /\ k1 > i + Len(Hashes)
              /\ k2 > k1
              /\ k3 > k2
              /\ StartsWithAt(t, k3, Fence)
              /\ closes # {}
    IN  IF ok
        THEN [ok |-> TRUE, filename |-> SubSeq(t, k1, k2 - 1),
              content |-> SubSeq(t, k5, Min(closes) - 1),
              lastIndex |-> Min(closes) + Len(Fence)]
        ELSE [ok |-> FALSE, filename |-> <<>>, content |-> <<>>, lastIndex |-> i]

\* while ((match = regex.exec(text)) !== null) fileMap[...] = ...
RECURSIVE RegexFallback(_, _, _)
RegexFallback(t, i, fileMap) ==
    IF i > Len(t) THEN fileMap
    ELSE LET m == RegexMatchAt(t, i)
         IN  IF m.ok
             THEN RegexFallback(t, m.lastIndex,
                                SetFile(fileMap, Trim(m.filename), Trim(m.content)))
             ELSE RegexFallback(t, i + 1, fileMap)

\* parsed.files.forEach(f => { if (f.filename && f.content) fileMap[...] = ... })
\* over the elements from index i on; a null element makes f.filename throw.
RECURSIVE StrictFiles(_, _, _)
StrictFiles(files, i, acc) ==
    IF i > Len(files) THEN acc
    ELSE LET f == files[i]
         IN  IF f = JNull THEN [acc EXCEPT !.threw = TRUE]
             ELSE IF f.filename # <<>> /\ f.content # <<>>
                  THEN StrictFiles(files, i + 1,
                           [acc EXCEPT !.fileMap = SetFile(@, f.filename, f.content)])
                  ELSE StrictFiles(files, i + 1, acc)

\* runCoder, lines 157-192: the File Map extracted from the raw response
\* text, whether strategy 1 threw (an 'info' entry is logged) and whether the
\* regex fallback ran.
CoderExtract(text) ==
    LET parsed == JsonParse(cleanLlmOutput(text))
        threwEarly == parsed = JSyntaxError \/ parsed = JNull
        s1 == IF threwEarly THEN [fileMap |-> EmptyFileMap, threw |-> TRUE]
              ELSE IF HasField(parsed, "files")
                   THEN StrictFiles(parsed.fields.files, 1,
                                    [fileMap |-> EmptyFileMap, threw |-> FALSE])
                   ELSE [fileMap |-> EmptyFileMap, threw |-> FALSE]
        jsonSuccess == ~s1.threw /\ HasField(parsed, "files")
        fallback == ~jsonSuccess \/ DOMAIN s1.fileMap = {}
        fileMap == IF fallback THEN RegexFallback(text, 1, s1.fileMap) ELSE s1.fileMap
    IN  [fileMap |-> fileMap, info |-> s1.threw, fallback |-> fallback,
         failed |-> DOMAIN fileMap = {}]

\* ----------------------------------------------------- types and constants
\* types.ts AnalysisStep, in declaration order
Steps == <<"IDLE", "ANALYST", "WAITING_FOR_USER", "ARCHITECT", "CODER", "AUDITOR",
           "COMPLETE", "ERROR">>
Stages == {"ANALYST", "ARCHITECT", "CODER", "AUDITOR"}

Null == [kind |-> "null"]

\* constants.ts (opaque one-piece texts)
DEMO_PHP_CODE == <<"DEMO_PHP_CODE">>
ADMIN_PORTAL_MAIN == <<"ADMIN_PORTAL_MAIN">>
ADMIN_PORTAL_DEP == <<"ADMIN_PORTAL_DEP">>

\* components/SettingsModal.tsx DEFAULT_CONFIG
DEFAULT_CONFIG ==
    [ANALYST |-> [provider |-> "google", model |-> "gemini-3-flash-preview"],
     ARCHITECT |-> [provider |-> "google", model |-> "gemini-3-flash-preview"],
     CODER |-> [provider |-> "google", model |-> "gemini-3-flash-preview"],
     AUDITOR |-> [provider |-> "openrouter", model |-> "google/gemma-3-27b-it:free"]]

\* ------------------------------------------------------------ input sets
\* What the user may save in the settings modal.
Configs == {DEFAULT_CONFIG}
KeyChoices ==
    {[google |-> NoKey, openrouter |-> NoKey],
     [google |-> "ui-g", openrouter |-> NoKey],
     [google |-> "ui-g", openrouter |-> "ui-o"]}

\* The page's surroundings: localStorage PROVIDER_API_KEY entries, the
\* build-time process.env keys and its NEXT_PUBLIC_ variants.
NoKeys == [p \in Providers |-> NoKey]
Environments ==
    {[ls |-> NoKeys, pe |-> NoKeys, pub |-> NoKeys],
     [ls |-> NoKeys, pe |-> [google |-> "env-g", openrouter |-> NoKey], pub |-> NoKeys],
     [ls |-> [google |-> "ls-g", openrouter |-> "ls-o"], pe |-> NoKeys, pub |-> NoKeys],
     [ls |-> [google |-> NoKey, openrouter |-> "ls-o"],
      pe |-> [google |-> "env-g", openrouter |-> "env-o"], pub |-> NoKeys]}

\* Provider response texts per stage (<<>> is the empty response).
AnalystTexts ==
    {<<DocPlanNoDeps>>, <<>>, <<DocPlanDep>>, <<DocPlanMain>>, <<DocNull>>, <<"o", "k">>}
ArchitectTexts == {<<"o", "k">>}
CoderTexts == {<<DocFiles>>, <<DocNoFiles>>}
AuditorTexts == {<<DocAudit>>, <<DocNull>>, <<"o", "k">>}
\* The texts put together from at most n of the given parts.
RECURSIVE Concats(_, _)
Concats(parts, n) ==
    IF n = 0 THEN {<<>>}
    ELSE LET shorter == Concats(parts, n - 1)
         IN  shorter \cup {t \o p : t \in shorter, p \in parts}

\* A file written the way the Coder prompt's fallback format asks for: a
\* heading line with the file name, then a fenced block with the content.
Block(b) ==
    Hashes \o <<" ">> \o b.name \o <<"\n">> \o Fence \o LangPython \o <<"\n">>
        \o b.content \o <<"\n">> \o Fence
FileBlocks ==
    {[name |-> <<"a">>, content |-> <<"x">>], [name |-> <<"a">>, content |-> <<"y">>],
     [name |-> <<"b">>, content |-> <<"s">>]}

\* Reasoning that drafts a file before the answer.
ThinkDraft == ThinkOpen \o Block([name |-> <<"b">>, content |-> <<"s">>]) \o ThinkClose

\* Coder responses with markup: JSON documents, file blocks, think markers,
\* a drafted file inside a think block, fences and prose in any order.
CoderParts ==
    {Block(b) : b \in FileBlocks}
        \cup {ThinkDraft, <<DocFiles>>, <<DocDupFiles>>, <<DocFilesNull>>, <<DocFilesPartial>>,
              <<DocNoFiles>>, ThinkOpen, ThinkClose, Fence \o LangJson, Fence, <<"p">>}
CoderMarkupTexts == Concats(CoderParts, MaxParts)

\* Architect responses with markup: think markers, fences and language tags
\* in any order, and opening think markers with a fence or an empty think
\* block inside them.
OpenAroundFence == <<"<", "t", "h", "i">> \o Fence \o <<"n", "k", ">">>
OpenAroundThink == <<"<", "t", "h", "i">> \o ThinkOpen \o ThinkClose \o <<"n", "k", ">">>
ArchitectParts ==
    {ThinkOpen, ThinkClose, Fence, LangJson, OpenAroundFence, OpenAroundThink,
     <<"x">>, <<" ">>}
ArchitectMarkupTexts == Concats(ArchitectParts, MaxParts)

\* What the user may type into the code editor.
TypedTexts == {<<"c">>, <<" ">>}

\* The file names the Analyst documents above list as required.
RequiredFileNames == {"includes/auth_logic.php", "main.legacy"}

\* What the user may type for a required file in the dependency modal.
DependencyTexts == {<<"d">>, <<" ">>}

\* ------------------------------------------------------------------ state
VARIABLES
    inputCode,              \* App state
    result,
    analysisStep,
    error,
    modelConfig,
    apiKeys,
    showSettingsModal,
    partialPlan,
    showDependencyModal,
    preloadedDependencies,
    logs,
    fileContents,           \* DependencyModal state (while mounted)
    environment,            \* localStorage / process.env, fixed for a page load
    runs,                   \* the pending async calls, one record per start
    nRuns,                  \* number of starts so far
    nGestures,              \* number of other page-level gestures so far
    clientCall              \* the LlmClient.generateContent call under study

vars == <<inputCode, result, analysisStep, error, modelConfig, apiKeys, showSettingsModal,
          partialPlan, showDependencyModal, preloadedDependencies, logs, fileContents,
          environment, runs, nRuns, nGestures, clientCall>>

RunIds == 1..MaxRuns

NoFiles == [n \in {} |-> <<>>]

\* A run: the closure and locals of one handleStartAnalysis call (continued by
\* handleDependencySubmit for the Plan it stored), and what it has done so far.
\*  pc        "unused", a stage (awaiting that stage's generateContent),
\*            "parked" (returned after asking for dependencies), "resolved",
\*            "rejected"
\* and, as a record of what the call did:
\*  emitted   the steps it reported through onProgress, in order
\*  written   the steps it passed to setAnalysisStep (onProgress included)
\*  logged    the entries it passed to onLog, in order
\*  requests  the provider requests it issued, in order (with the session
\*            key and the Plan the stage runner was called with)
\*  responses the response texts it received, in order
\*  scanned   whether runCoder ran its regex fallback
\*  failure   the stage and cause of the throw that ended it
\*  rejected  what the entry point threw to the App handler
\*  returned  what completeMigration returned
\*  supplied, submitInput   the files and the inputCode handleDependencySubmit saw
\*  abandonedAt   nRuns when handleReset found the call pending (0: never)
\*  cancelledAt   nRuns when Cancel dismissed the modal offering its Plan
\*                (0: never)
UnusedRun ==
    [pc |-> "unused", mainCode |-> <<>>, modelConfig |-> Null, apiKeys |-> NoKeys,
     plan |-> Null, allContext |-> NoFiles, architecture |-> <<>>,
     generatedFiles |-> EmptyFileMap, emitted |-> <<>>, written |-> <<>>,
     logged |-> <<>>, requests |-> <<>>, failure |-> Null, rejected |-> Null,
     returned |-> Null, supplied |-> NoFiles, submitInput |-> <<>>, abandonedAt |-> 0,
     responses |-> <<>>, scanned |-> FALSE, cancelledAt |-> 0]

\* The state after mount (App.tsx 33-83) on a page whose surroundings are env
\* and whose localStorage holds the settings saved earlier: savedConfig under
\* legacy_refactor_model_config_v2 (Null: none) and savedKeys under
\* legacy_refactor_api_keys (NoKeys: none).
Mounted(env, savedConfig, savedKeys) ==
    /\ environment = env
    /\ inputCode = <<>>
    /\ result = Null
    /\ analysisStep = "IDLE"
    /\ error = Null
    /\ apiKeys = [p \in Providers |->
                     IF savedKeys[p] # NoKey THEN savedKeys[p] ELSE env.pe[p]]
    /\ modelConfig = savedConfig
    /\ showSettingsModal = (savedConfig = Null)
    /\ partialPlan = Null
    /\ showDependencyModal = FALSE
    /\ preloadedDependencies = NoFiles
    /\ logs = <<>>
    /\ fileContents = NoFiles
    /\ runs = [r \in RunIds |-> UnusedRun]
    /\ nRuns = 0
    /\ nGestures = 0
    /\ clientCall = <<>>

\* A returning user: settings and both keys were saved on an earlier visit.
Init ==
    Mounted([ls |-> NoKeys, pe |-> NoKeys, pub |-> NoKeys], DEFAULT_CONFIG,
            [google |-> "ui-g", openrouter |-> "ui-o"])

\* Any page: first visit or returning user, with or without keys.
InitSettings ==
    \E env \in Environments : \E savedConfig \in Configs \cup {Null} :
        \E savedKeys \in KeyChoices : Mounted(env, savedConfig, savedKeys)

\* ---------------------------------------------------------------- helpers
\* { ...a, ...b }
Spread(a, b) ==
    [n \in DOMAIN a \cup DOMAIN b |-> IF n \in DOMAIN b THEN b[n] ELSE a[n]]

SeqToSet(q) == {q[i] : i \in 1..Len(q)}

\* The modals are full-screen overlays (fixed inset-0 z-50) over the header
\* and the main view; the dependency modal is rendered after the settings
\* modal and so lies on top of it.
DependencyModalShown == showDependencyModal /\ partialPlan # Null
SettingsModalOnTop == showSettingsModal /\ ~DependencyModalShown
PageReachable == ~showSettingsModal /\ ~DependencyModalShown

\* App.tsx 222
isProcessing ==
    analysisStep \notin {"IDLE", "COMPLETE", "ERROR", "WAITING_FOR_USER"}

\* DependencyModal's auto-fill effect (DependencyModal.tsx, useEffect)
AutoFill(contents, requiredFiles, preloaded) ==
    IF DOMAIN preloaded = {} THEN contents
    ELSE LET fill == {f \in SeqToSet(requiredFiles) :
                         /\ f \in DOMAIN preloaded /\ preloaded[f] # <<>>
                         /\ ~(f \in DOMAIN contents /\ contents[f] # <<>>)}
         IN  [f \in DOMAIN contents \cup fill |->
                 IF f \in fill THEN preloaded[f] ELSE contents[f]]

\* fileContents after a step of the App: the modal's state is dropped when it
\* unmounts, starts empty when it mounts, and the auto-fill effect runs on
\* mount and whenever requiredFiles or preloadedDependencies is replaced.
ModalContents(planAfter, showAfter, preloadedAfter, depsReplaced) ==
    IF ~(showAfter /\ planAfter # Null) THEN NoFiles
    ELSE LET before == IF DependencyModalShown THEN fileContents ELSE NoFiles
             rf == planAfter.value.fields.required_files
         IN  IF ~DependencyModalShown \/ depsReplaced
             THEN AutoFill(before, rf, preloadedAfter)
             ELSE before

\* A completeness test that takes any non-empty content, blank or not.
isCompleteUntrimmed(requiredFiles, contents) ==
    \A f \in SeqToSet(requiredFiles) : f \in DOMAIN contents /\ contents[f] # <<>>

\* DependencyModal isComplete
isComplete(requiredFiles, contents) ==
    \A f \in SeqToSet(requiredFiles) :
        f \in DOMAIN contents /\ contents[f] # <<>> /\ Len(Trim(contents[f])) > 0

\* ------------------------------------------------- the pipeline, step by step
\* The part of the state a pending call can write, with the call's own record.
World(r) ==
    [id |-> r, run |-> runs[r], analysisStep |-> analysisStep, error |-> error,
     result |-> result, partialPlan |-> partialPlan,
     showDependencyModal |-> showDependencyModal, logs |-> logs]

\* migrationService.ts createLog (content and timestamp left out; run names the
\* call that made the entry)
createLog(step, type, r) == [step |-> step, type |-> type, run |-> r]

\* App.tsx addLog
addLog(w, entry) ==
    [w EXCEPT !.logs = Append(@, entry), !.run.logged = Append(@, entry)]

\* const response = await client.generateContent(...): the text received
received(w, stage, text) ==
    [w EXCEPT !.run.responses = Append(@, [stage |-> stage, text |-> text])]

\* setAnalysisStep called from the code of pending call w.id
setAnalysisStep(w, step) ==
    [w EXCEPT !.analysisStep = step, !.run.written = Append(@, step)]

\* the onProgress callback: (step) => setAnalysisStep(step)
onProgress(w, step) ==
    setAnalysisStep([w EXCEPT !.run.emitted = Append(@, step)], step)

\* A catch block that throws a new, wrapped error in place of the one caught.
RethrowWrapped(e) == <<"Migration failed", e>>

\* catch (error) { throw error } of startAnalysis / completeMigration
Rethrow(e) == e

\* A throw inside startAnalysis / completeMigration: the catch block reports
\* ERROR and rethrows; the catch of the App handler that awaits the call sets
\* ERROR and the error message.
Fail(w, stage, cause) ==
    LET w1 == onProgress(w, "ERROR")
        thrown == Rethrow(cause)
        w2 == [w1 EXCEPT !.run.pc = "rejected",
                         !.run.failure = [stage |-> stage, cause |-> cause],
                         !.run.rejected = thrown]
    IN  [setAnalysisStep(w2, "ERROR") EXCEPT !.error = thrown]

\* A stage that sends its request without the "Missing API Key" check.
beginStageUnchecked(w, stage) ==
    LET selection == w.run.modelConfig[stage]
        w1 == addLog(w, createLog(stage, "prompt", w.id))
        apiKey == resolveApiKey(selection.provider, w.run.apiKeys,
                                environment.ls, environment.pe)
    IN  [w1 EXCEPT !.run.pc = stage,
                   !.run.requests =
                       Append(@, [stage |-> stage,
                                  provider |-> selection.provider,
                                  apiKey |-> apiKey,
                                  sessionKey |-> w.run.apiKeys[selection.provider],
                                  plan |-> IF stage \in {"ARCHITECT", "CODER"}
                                           THEN w.run.plan ELSE Null])]

\* runAnalyst / runArchitect / runCoder / runAuditor up to the await of
\* client.generateContent: prompt entry, key resolution, client creation.
beginStage(w, stage) ==
    LET selection == w.run.modelConfig[stage]
        w1 == addLog(w, createLog(stage, "prompt", w.id))
        apiKey == resolveApiKey(selection.provider, w.run.apiKeys,
                                environment.ls, environment.pe)
        clientKey == createLlmClient(selection.provider, apiKey,
                                     environment.pe, environment.pub)
    IN  IF apiKey = NoKey
        THEN Fail(w1, stage, "Missing API Key")
        ELSE [w1 EXCEPT !.run.pc = stage,
                        !.run.requests =
                            Append(@, [stage |-> stage,
                                       provider |-> selection.provider,
                                       apiKey |-> clientKey,
                                       sessionKey |-> w.run.apiKeys[selection.provider],
                                       plan |-> IF stage \in {"ARCHITECT", "CODER"}
                                                THEN w.run.plan ELSE Null])]

\* A completeMigration that works on a Plan it normalizes first: the list of
\* required files is dropped once the files are in the context.
completeMigrationNormalized(w, plan, allContext, config, keys) ==
    LET kept == DOMAIN plan.value.fields \ {"required_files"}
        normal == [plan EXCEPT !.value.fields = [f \in kept |-> plan.value.fields[f]]]
        w1 == [w EXCEPT !.run.plan = normal, !.run.allContext = allContext,
                        !.run.modelConfig = config, !.run.apiKeys = keys]
    IN  beginStage(onProgress(w1, "ARCHITECT"), "ARCHITECT")

\* completeMigration up to its first await
completeMigration(w, plan, allContext, config, keys) ==
    LET w1 == [w EXCEPT !.run.plan = plan, !.run.allContext = allContext,
                        !.run.modelConfig = config, !.run.apiKeys = keys]
    IN  beginStage(onProgress(w1, "ARCHITECT"), "ARCHITECT")

\* A test of required_files that takes the empty list for a list of files.
needsFilesTruthy(plan) == HasField(plan, "required_files")

\* startAnalysis line 260
needsFiles(plan) ==
    HasField(plan, "required_files") /\ Len(plan.fields.required_files) > 0

\* runAnalyst 78-87, startAnalysis 260-262, handleStartAnalysis 134-150
AnalystDone(w, text) ==
    LET rawText == cleanLlmOutput(IF text = <<>> THEN <<DocEmptyObject>> ELSE text)
        w1 == addLog(received(w, "ANALYST", text), createLog("ANALYST", "response", w.id))
        parsed == JsonParse(rawText)
        plan == [id |-> w.id, value |-> parsed]
    IN  IF parsed = JSyntaxError
        THEN Fail(addLog(w1, createLog("ANALYST", "error", w.id)), "ANALYST",
                  "Analyst failed to produce valid JSON.")
        ELSE IF parsed = JNull
        THEN Fail(w1, "ANALYST", "TypeError")
        ELSE IF needsFiles(parsed)
        THEN [setAnalysisStep([w1 EXCEPT !.run.plan = plan, !.run.pc = "parked",
                                         !.partialPlan = plan],
                              "WAITING_FOR_USER")
                 EXCEPT !.showDependencyModal = TRUE]
        ELSE completeMigration(w1, plan, ("main.legacy" :> w.run.mainCode),
                               w.run.modelConfig, w.run.apiKeys)

\* An Architect stage whose response entry is logged after the Coder stage
\* has begun.
ArchitectDoneLogsLate(w, text) ==
    LET rawText == cleanLlmOutput(IF text = <<>> THEN <<"Architect failed.">> ELSE text)
        w1 == [received(w, "ARCHITECT", text) EXCEPT !.run.architecture = rawText]
        w2 == beginStage(onProgress(w1, "CODER"), "CODER")
    IN  addLog(w2, createLog("ARCHITECT", "response", w.id))

\* runArchitect 116-120, completeMigration 282-283
ArchitectDone(w, text) ==
    LET rawText == cleanLlmOutput(IF text = <<>> THEN <<"Architect failed.">> ELSE text)
        w1 == addLog(received(w, "ARCHITECT", text), createLog("ARCHITECT", "response", w.id))
        w2 == [w1 EXCEPT !.run.architecture = rawText]
    IN  beginStage(onProgress(w2, "CODER"), "CODER")

\* A Coder stage that hands an empty File Map on to the Auditor.
CoderDoneEmptyAllowed(w, text) ==
    LET w1 == addLog(received(w, "CODER", text), createLog("CODER", "response", w.id))
        ext == CoderExtract(text)
    IN  beginStage(onProgress([w1 EXCEPT !.run.generatedFiles = ext.fileMap],
                              "AUDITOR"), "AUDITOR")

\* runCoder 153-192, completeMigration 285-286
CoderDone(w, text) ==
    LET w1 == addLog(received(w, "CODER", text), createLog("CODER", "response", w.id))
        ext == CoderExtract(text)
        w2 == [(IF ext.info THEN addLog(w1, createLog("CODER", "info", w.id)) ELSE w1)
                  EXCEPT !.run.scanned = ext.fallback]
    IN  IF ext.failed
        THEN Fail(w2, "CODER", "Coder failed to generate files.")
        ELSE beginStage(onProgress([w2 EXCEPT !.run.generatedFiles = ext.fileMap],
                                   "AUDITOR"), "AUDITOR")

\* runAuditor 240-244, completeMigration 288-296, App.tsx 148-149 / 176-177
AuditorDone(w, text) ==
    LET rawText == cleanLlmOutput(IF text = <<>> THEN <<DocEmptyObject>> ELSE text)
        w1 == addLog(received(w, "AUDITOR", text), createLog("AUDITOR", "response", w.id))
        auditResult == JsonParse(rawText)
        w2 == onProgress(w1, "COMPLETE")
        finalResult ==
            [plan |-> w.run.plan, generatedFiles |-> w.run.generatedFiles,
             securityReport |-> IF HasField(auditResult, "security_issues")
                                THEN auditResult.fields.security_issues ELSE <<>>,
             auditorComments |-> IF HasField(auditResult, "comments")
                                 THEN auditResult.fields.comments
                                 ELSE <<"Audit completed.">>,
             modelConfig |-> w.run.modelConfig]
    IN  IF auditResult = JSyntaxError
        THEN Fail(w1, "AUDITOR", "SyntaxError")
        ELSE IF auditResult = JNull
        THEN Fail(w2, "COMPLETE", "TypeError")
        ELSE [w2 EXCEPT !.run.pc = "resolved", !.run.returned = finalResult,
                        !.result = finalResult]

\* the state after a step of pending call w.id
Commit(w) ==
    /\ analysisStep' = w.analysisStep
    /\ error' = w.error
    /\ result' = w.result
    /\ partialPlan' = w.partialPlan
    /\ showDependencyModal' = w.showDependencyModal
    /\ logs' = w.logs
    /\ runs' = [runs EXCEPT ![w.id] = w.run]
    /\ fileContents' = ModalContents(w.partialPlan, w.showDependencyModal,
                                     preloadedDependencies,
                                     w.partialPlan # partialPlan)

\* ---------------------------------------------------------------- actions
\* The Start button (INPUT tab; the Source tab button is always enabled, so
\* the tab is not part of the state), App.tsx 108-132 and 360-362.
handleStartAnalysis(limit) ==
    /\ PageReachable
    /\ ~isProcessing /\ Trim(inputCode) # <<>> /\ modelConfig # Null
    /\ nRuns < limit
    /\ LET r == nRuns + 1
           w0 == [World(r) EXCEPT
                     !.run = [UnusedRun EXCEPT !.mainCode = inputCode,
                                               !.modelConfig = modelConfig,
                                               !.apiKeys = apiKeys],
                     !.error = Null, !.result = Null,
                     !.partialPlan = Null, !.logs = <<>>]
       IN  Commit(beginStage(onProgress(setAnalysisStep(w0, "ANALYST"), "ANALYST"),
                             "ANALYST"))
    /\ nRuns' = nRuns + 1
    /\ UNCHANGED <<inputCode, modelConfig, apiKeys, showSettingsModal,
                   preloadedDependencies, environment, nGestures, clientCall>>

\* The provider answers the pending request of run r with a response text.
AnalystResponse(r, text) ==
    /\ runs[r].pc = "ANALYST"
    /\ Commit(AnalystDone(World(r), text))
    /\ UNCHANGED <<inputCode, modelConfig, apiKeys, showSettingsModal,
                   preloadedDependencies, environment, nRuns, nGestures, clientCall>>

ArchitectResponse(r, text) ==
    /\ runs[r].pc = "ARCHITECT"
    /\ Commit(ArchitectDone(World(r), text))
    /\ UNCHANGED <<inputCode, modelConfig, apiKeys, showSettingsModal,
                   preloadedDependencies, environment, nRuns, nGestures, clientCall>>

CoderResponse(r, text) ==
    /\ runs[r].pc = "CODER"
    /\ Commit(CoderDone(World(r), text))
    /\ UNCHANGED <<inputCode, modelConfig, apiKeys, showSettingsModal,
                   preloadedDependencies, environment, nRuns, nGestures, clientCall>>

AuditorResponse(r, text) ==
    /\ runs[r].pc = "AUDITOR"
    /\ Commit(AuditorDone(World(r), text))
    /\ UNCHANGED <<inputCode, modelConfig, apiKeys, showSettingsModal,
                   preloadedDependencies, environment, nRuns, nGestures, clientCall>>

\* The pending request of run r fails: generateContent throws
\* "Google AI Error (...)" / "OpenRouter Error (...)".
ProviderFailure(r) ==
    /\ runs[r].pc \in Stages
    /\ Commit(Fail(World(r), runs[r].pc, "ProviderError"))
    /\ UNCHANGED <<inputCode, modelConfig, apiKeys, showSettingsModal,
                   preloadedDependencies, environment, nRuns, nGestures, clientCall>>

\* DependencyModal: typing, pasting or uploading the content of a required file
handleContentChange(filename, content) ==
    /\ DependencyModalShown
    /\ filename \in SeqToSet(partialPlan.value.fields.required_files)
    /\ fileContents' = Spread(fileContents, filename :> content)
    /\ UNCHANGED <<inputCode, result, analysisStep, error, modelConfig, apiKeys,
                   showSettingsModal, partialPlan, showDependencyModal,
                   preloadedDependencies, logs, environment, runs, nRuns, nGestures, clientCall>>

\* DependencyModal "Resume Analysis" (enabled when isComplete), App.tsx 158-182
handleDependencySubmit ==
    /\ DependencyModalShown
    /\ isComplete(partialPlan.value.fields.required_files, fileContents)
    /\ LET additionalFiles == fileContents
           w0 == [World(partialPlan.id) EXCEPT !.showDependencyModal = FALSE,
                                               !.run.supplied = additionalFiles,
                                               !.run.submitInput = inputCode]
           fullContext == Spread("main.legacy" :> inputCode, additionalFiles)
       IN  IF modelConfig = Null
           THEN Commit(w0)
           ELSE Commit(completeMigration(w0, partialPlan, fullContext, modelConfig, apiKeys))
    /\ UNCHANGED <<inputCode, modelConfig, apiKeys, showSettingsModal,
                   preloadedDependencies, environment, nRuns, nGestures, clientCall>>

\* DependencyModal "Cancel", App.tsx 242-245
onCancel ==
    /\ DependencyModalShown
    /\ showDependencyModal' = FALSE
    /\ analysisStep' = "IDLE"
    /\ fileContents' = NoFiles
    /\ runs' = [runs EXCEPT ![partialPlan.id].cancelledAt = nRuns]
    /\ UNCHANGED <<inputCode, result, error, modelConfig, apiKeys, showSettingsModal,
                   partialPlan, preloadedDependencies, logs, environment, nRuns, nGestures,
                   clientCall>>

\* CodeEditor onChange={setInputCode}: shown on the INPUT tab unless
\* isProcessing or WAITING_FOR_USER, App.tsx 384-395
setInputCode(code) ==
    /\ PageReachable
    /\ nGestures < MaxGestures
    /\ nGestures' = nGestures + 1
    /\ ~isProcessing /\ analysisStep # "WAITING_FOR_USER"
    /\ inputCode' = code
    /\ UNCHANGED <<result, analysisStep, error, modelConfig, apiKeys, showSettingsModal,
                   partialPlan, showDependencyModal, preloadedDependencies, logs,
                   fileContents, environment, runs, nRuns, clientCall>>

\* "New Analysis", App.tsx 89-98 and 279-288
handleReset ==
    /\ PageReachable
    /\ nGestures < MaxGestures
    /\ nGestures' = nGestures + 1
    /\ inputCode # <<>> \/ result # Null \/ Len(logs) > 0
    /\ inputCode' = <<>>
    /\ result' = Null
    /\ analysisStep' = "IDLE"
    /\ error' = Null
    /\ partialPlan' = Null
    /\ logs' = <<>>
    /\ preloadedDependencies' = NoFiles
    /\ fileContents' = ModalContents(Null, showDependencyModal, NoFiles, TRUE)
    /\ runs' = [r \in RunIds |->
                   IF runs[r].pc \in Stages
                   THEN [runs[r] EXCEPT !.abandonedAt = nRuns] ELSE runs[r]]
    /\ UNCHANGED <<modelConfig, apiKeys, showSettingsModal, showDependencyModal,
                   environment, nRuns, clientCall>>

\* "Load osCommerce Demo", App.tsx 202-209
loadDemo ==
    /\ PageReachable
    /\ nGestures < MaxGestures
    /\ nGestures' = nGestures + 1
    /\ inputCode' = DEMO_PHP_CODE
    /\ preloadedDependencies' = NoFiles
    /\ result' = Null
    /\ analysisStep' = "IDLE"
    /\ logs' = <<>>
    /\ error' = Null
    /\ fileContents' = ModalContents(partialPlan, showDependencyModal, NoFiles, TRUE)
    /\ UNCHANGED <<modelConfig, apiKeys, showSettingsModal, partialPlan,
                   showDependencyModal, environment, runs, nRuns, clientCall>>

\* "Admin Portal (Hard)", App.tsx 211-220
loadAdminDemo ==
    /\ PageReachable
    /\ nGestures < MaxGestures
    /\ nGestures' = nGestures + 1
    /\ inputCode' = ADMIN_PORTAL_MAIN
    /\ preloadedDependencies' = ("includes/auth_logic.php" :> ADMIN_PORTAL_DEP)
    /\ result' = Null
    /\ analysisStep' = "IDLE"
    /\ logs' = <<>>
    /\ error' = Null
    /\ fileContents' = ModalContents(partialPlan, showDependencyModal,
                                     "includes/auth_logic.php" :> ADMIN_PORTAL_DEP, TRUE)
    /\ UNCHANGED <<modelConfig, apiKeys, showSettingsModal, partialPlan,
                   showDependencyModal, environment, runs, nRuns, clientCall>>

\* Settings button, App.tsx 271-277
openSettings ==
    /\ PageReachable
    /\ nGestures < MaxGestures
    /\ nGestures' = nGestures + 1
    /\ showSettingsModal' = TRUE
    /\ UNCHANGED <<inputCode, result, analysisStep, error, modelConfig, apiKeys,
                   partialPlan, showDependencyModal, preloadedDependencies, logs,
                   fileContents, environment, runs, nRuns, clientCall>>

\* SettingsModal Save: handleSave -> handleSettingsSave, App.tsx 100-106
handleSettingsSave(config, keys) ==
    /\ SettingsModalOnTop
    /\ modelConfig' = config
    /\ apiKeys' = keys
    /\ showSettingsModal' = FALSE
    /\ UNCHANGED <<inputCode, result, analysisStep, error, partialPlan,
                   showDependencyModal, preloadedDependencies, logs, fileContents,
                   environment, runs, nRuns, nGestures, clientCall>>

\* SettingsModal Cancel / X: onClose, App.tsx 233
closeSettings ==
    /\ SettingsModalOnTop
    /\ showSettingsModal' = FALSE
    /\ UNCHANGED <<inputCode, result, analysisStep, error, modelConfig, apiKeys,
                   partialPlan, showDependencyModal, preloadedDependencies, logs,
                   fileContents, environment, runs, nRuns, nGestures, clientCall>>

Pipeline ==
    \/ \E r \in RunIds : \E text \in AnalystTexts : AnalystResponse(r, text)
    \/ \E r \in RunIds : \E text \in ArchitectTexts : ArchitectResponse(r, text)
    \/ \E r \in RunIds : \E text \in CoderTexts : CoderResponse(r, text)
    \/ \E r \in RunIds : \E text \in AuditorTexts : AuditorResponse(r, text)
    \/ \E r \in RunIds : ProviderFailure(r)

DependencyModal ==
    \/ \E f \in RequiredFileNames : \E c \in DependencyTexts : handleContentChange(f, c)
    \/ handleDependencySubmit
    \/ onCancel

Page ==
    \/ handleReset
    \/ loadDemo
    \/ loadAdminDemo

Settings ==
    \/ openSettings
    \/ \E config \in Configs : \E keys \in KeyChoices : handleSettingsSave(config, keys)
    \/ closeSettings

\* Concurrent runs on a page whose settings are in place.
Next ==
    \/ handleStartAnalysis(MaxRuns)
    \/ Pipeline
    \/ DependencyModal
    \/ Page

Spec == Init /\ [][Next]_vars

\* One run on any page, with the settings modal and the code editor in use.
NextSettings ==
    \/ handleStartAnalysis(MaxSettingsRuns)
    \/ Pipeline
    \/ DependencyModal
    \/ Page
    \/ \E code \in TypedTexts : setInputCode(code)
    \/ Settings

SpecSettings == InitSettings /\ [][NextSettings]_vars

\* One run whose Coder response is any text with markup.
NextCoder ==
    \/ loadDemo
    \/ handleStartAnalysis(MaxSettingsRuns)
    \/ \E r \in RunIds : \E text \in {<<DocPlanNoDeps>>} : AnalystResponse(r, text)
    \/ \E r \in RunIds : \E text \in ArchitectTexts : ArchitectResponse(r, text)
    \/ \E r \in RunIds : \E text \in CoderMarkupTexts : CoderResponse(r, text)
    \/ \E r \in RunIds : \E text \in AuditorTexts : AuditorResponse(r, text)

SpecCoder == Init /\ [][NextCoder]_vars

\* One run whose Architect response is any text with markup.
NextArchitect ==
    \/ loadDemo
    \/ handleStartAnalysis(MaxSettingsRuns)
    \/ \E r \in RunIds : \E text \in {<<DocPlanNoDeps>>} : AnalystResponse(r, text)
    \/ \E r \in RunIds : \E text \in ArchitectMarkupTexts : ArchitectResponse(r, text)

SpecArchitect == Init /\ [][NextArchitect]_vars

\* ------------------------------------------------------------ the LLM clients
\* An optional field or parameter is a sequence: <<>> when absent, <<v>> when
\* present, so that an absent value and an empty one stay apart.

Some(v) == <<v>>

SchemaTypes == {"STRING", "NUMBER", "INTEGER", "BOOLEAN", "ARRAY", "OBJECT"}

\* A ResponseSchema node with every optional field absent.
Node(type) ==
    [type |-> type, description |-> <<>>, properties |-> <<>>, items |-> <<>>,
     enum |-> <<>>, required |-> <<>>]

\* String.prototype.toLowerCase on the SchemaType values.
LowerType(type) ==
    CASE type = "STRING" -> "string"
      [] type = "NUMBER" -> "number"
      [] type = "INTEGER" -> "integer"
      [] type = "BOOLEAN" -> "boolean"
      [] type = "ARRAY" -> "array"
      [] type = "OBJECT" -> "object"

\* Truthiness of an optional string: absent and empty are both falsy.
HasText(opt) == opt # <<>> /\ opt[1] # <<>>

RECURSIVE mapToGoogleSchema(_)
mapToGoogleSchema(schema) ==
    [type |-> schema.type,
     description |-> IF HasText(schema.description) THEN schema.description ELSE <<>>,
     enum |-> schema.enum,
     required |-> schema.required,
     properties |->
        IF schema.properties # <<>>
        THEN Some([key \in DOMAIN schema.properties[1] |->
                      mapToGoogleSchema(schema.properties[1][key])])
        ELSE <<>>,
     items |-> IF schema.items # <<>> THEN Some(mapToGoogleSchema(schema.items[1]))
               ELSE <<>>]

RECURSIVE mapToJsonSchemaItemsOpen(_)
mapToJsonSchemaItemsOpen(schema) ==
    LET RECURSIVE open(_)
        open(s) ==
            [type |-> LowerType(s.type),
             description |-> IF HasText(s.description) THEN s.description ELSE <<>>,
             enum |-> s.enum,
             required |-> s.required,
             properties |->
                IF s.properties # <<>>
                THEN Some([key \in DOMAIN s.properties[1] |-> open(s.properties[1][key])])
                ELSE <<>>,
             additionalProperties |-> <<>>,
             items |-> IF s.items # <<>> THEN Some(open(s.items[1])) ELSE <<>>]
    IN  [type |-> LowerType(schema.type),
         description |-> IF HasText(schema.description) THEN schema.description ELSE <<>>,
         enum |-> schema.enum,
         required |-> schema.required,
         properties |->
            IF schema.properties # <<>>
            THEN Some([key \in DOMAIN schema.properties[1] |->
                          mapToJsonSchemaItemsOpen(schema.properties[1][key])])
            ELSE <<>>,
         additionalProperties |-> IF schema.properties # <<>> THEN Some(FALSE) ELSE <<>>,
         items |-> IF schema.items # <<>> THEN Some(open(schema.items[1])) ELSE <<>>]

RECURSIVE mapToJsonSchema(_)
mapToJsonSchema(schema) ==
    [type |-> LowerType(schema.type),
     description |-> IF HasText(schema.description) THEN schema.description ELSE <<>>,
     enum |-> schema.enum,
     required |-> schema.required,
     properties |->
        IF schema.properties # <<>>
        THEN Some([key \in DOMAIN schema.properties[1] |->
                      mapToJsonSchema(schema.properties[1][key])])
        ELSE <<>>,
     additionalProperties |-> IF schema.properties # <<>> THEN Some(FALSE) ELSE <<>>,
     items |-> IF schema.items # <<>> THEN Some(mapToJsonSchema(schema.items[1]))
               ELSE <<>>]

\* ----- inputs of the clients

NoProps == [key \in {} |-> Node("STRING")]

LeafSchemas ==
    {Node("STRING"),
     [Node("STRING") EXCEPT !.description = Some(<<"d">>), !.enum = Some(<<"LOW", "HIGH">>)],
     [Node("INTEGER") EXCEPT !.description = Some(<<>>), !.enum = Some(<<>>)],
     [Node("OBJECT") EXCEPT !.properties = Some(NoProps), !.required = Some(<<>>)],
     Node("OBJECT")}

ObjectOf(props, required) ==
    [Node("OBJECT") EXCEPT !.properties = Some(props), !.required = required]

ArrayOf(items) == [Node("ARRAY") EXCEPT !.items = Some(items)]

RECURSIVE Schemas(_)
Schemas(depth) ==
    IF depth = 0 THEN LeafSchemas
    ELSE LET sub == Schemas(depth - 1)
         IN  sub \cup {ArrayOf(s) : s \in sub}
                 \cup {ObjectOf("p" :> s, <<>>) : s \in sub}
                 \cup {ObjectOf(("p" :> s) @@ ("q" :> Node("BOOLEAN")),
                                Some(<<"p", "q">>)) : s \in sub}

ResponseSchemas == Schemas(MaxDepth)

\* The schema invariant: an OBJECT node defines properties, an ARRAY node items.
RECURSIVE WellFormed(_)
WellFormed(schema) ==
    /\ schema.type = "OBJECT" => schema.properties # <<>>
    /\ schema.type = "ARRAY" => schema.items # <<>>
    /\ schema.properties # <<>> =>
          \A key \in DOMAIN schema.properties[1] : WellFormed(schema.properties[1][key])
    /\ schema.items # <<>> => WellFormed(schema.items[1])

Gemma == <<"g", "e", "m", "m", "a">>

ModelIds ==
    {<<"g", "e", "m", "i", "n", "i">>,
     Gemma \o <<"-", "3">>,
     <<"G", "e", "m", "m", "a">>,
     <<"G", "E", "M", "M", "A", "-", "3">>,
     <<"g", "o", "o", "g", "l", "e", "/">> \o Gemma \o <<":", "f">>,
     <<"g", "e", "m", "m">>,
     <<"g", "e", "m", "-", "m", "a">>}

JsonMime == <<"application/json">>

GenerateContentParams ==
    [model : ModelIds,
     systemInstruction : {<<>>, Some(<<>>), Some(<<"s">>)},
     prompt : {<<"q">>},
     responseSchema : {<<>>} \cup {Some(s) : s \in ResponseSchemas},
     responseMimeType : {<<>>, Some(<<>>), Some(JsonMime), Some(<<"text/plain">>)}]

Counters == {<<>>, Some(0), Some(7)}

\* The accounting block of a provider response, in the provider's own names.
UsageMetadatas ==
    {<<>>} \cup {Some([promptTokenCount |-> c, candidatesTokenCount |-> Some(7),
                       totalTokenCount |-> c]) : c \in Counters}

CompletionUsages ==
    {<<>>} \cup {Some([prompt_tokens |-> c, completion_tokens |-> Some(7),
                       total_tokens |-> c]) : c \in Counters}

GoogleResponses ==
    [text : {<<>>, Some(<<>>), Some(<<"r">>)}, usageMetadata : UsageMetadatas]

Choices ==
    {<<>>,
     <<[message |-> <<>>]>>,
     <<[message |-> Some([content |-> <<>>])]>>,
     <<[message |-> Some([content |-> Some(<<"r">>)])]>>,
     <<[message |-> Some([content |-> Some(<<"r">>)])],
       [message |-> Some([content |-> Some(<<"r", "2">>)])]>>}

Completions == [choices : Choices, usage : CompletionUsages]

\* What a rejected SDK call carries: error.message and error.error.message.
ProviderErrors ==
    {[message |-> <<>>, error |-> <<>>],
     [message |-> Some(<<"m">>), error |-> <<>>],
     [message |-> Some(<<"m">>), error |-> Some([message |-> Some(<<"i">>)])],
     [message |-> <<>>, error |-> Some([message |-> <<>>])]}

\* ----- GoogleLlmClient.generateContent

toLowerCase(c) ==
    CASE c = "G" -> "g"
      [] c = "E" -> "e"
      [] c = "M" -> "m"
      [] c = "A" -> "a"
      [] OTHER -> c

includes(s, sub) ==
    \E i \in 1..(Len(s) - Len(sub) + 1) : SubSeq(s, i, i + Len(sub) - 1) = sub

\* A test for the Gemma family that compares the identifier as written.
isGemmaAsWritten(model) == includes(model, Gemma)

isGemma(model) == includes([i \in 1..Len(model) |-> toLowerCase(model[i])], Gemma)

GoogleRequest(params) ==
    LET folded == HasText(params.systemInstruction) /\ isGemma(params.model)
    IN  [model |-> params.model,
         contents |->
            IF folded
            THEN <<"SYSTEM INSTRUCTION: ">> \o params.systemInstruction[1]
                     \o <<"\n\nUSER PROMPT: ">> \o params.prompt
            ELSE params.prompt,
         config |->
            [systemInstruction |->
                IF HasText(params.systemInstruction) /\ ~isGemma(params.model)
                THEN params.systemInstruction ELSE <<>>,
             responseSchema |->
                IF params.responseSchema # <<>>
                THEN Some(mapToGoogleSchema(params.responseSchema[1])) ELSE <<>>,
             responseMimeType |->
                IF HasText(params.responseMimeType) THEN params.responseMimeType
                ELSE <<>>]]

\* x || 0 on an optional counter.
OrZero(c) == IF c = <<>> THEN Some(0) ELSE c

GoogleResult(response) ==
    [text |-> IF HasText(response.text) THEN response.text[1] ELSE <<>>,
     usage |->
        IF response.usageMetadata = <<>> THEN <<>>
        ELSE Some([input |-> OrZero(response.usageMetadata[1].promptTokenCount),
                   output |-> OrZero(response.usageMetadata[1].candidatesTokenCount),
                   total |-> OrZero(response.usageMetadata[1].totalTokenCount)])]

GoogleError(params, err) ==
    [prefix |-> "Google AI Error", model |-> params.model,
     detail |-> IF HasText(err.message) THEN err.message[1]
                ELSE <<"JSON.stringify(error)">>]

\* ----- OpenRouterLlmClient.generateContent

DefaultInstruction == <<"You are a helpful AI assistant.">>
CriticalInstruction == <<"\n\nCRITICAL INSTRUCTION: raw JSON only">>
SchemaToFollow == <<"\n\nSchema to follow:\n">>

\* The system message: its text, ending (when json is present) with the
\* serialization of that value.
systemContent(params) ==
    LET base == IF HasText(params.systemInstruction) THEN params.systemInstruction[1]
                ELSE DefaultInstruction
        strict == params.responseMimeType = Some(JsonMime)
        withSchema == strict /\ params.responseSchema # <<>>
    IN  [text |-> base \o (IF strict THEN CriticalInstruction ELSE <<>>)
                       \o (IF withSchema THEN SchemaToFollow ELSE <<>>),
         json |-> IF withSchema THEN Some(mapToJsonSchema(params.responseSchema[1]))
                  ELSE <<>>]

OpenRouterRequest(params) ==
    [model |-> params.model,
     messages |-> <<[role |-> "system", content |-> systemContent(params)],
                    [role |-> "user",
                     content |-> [text |-> params.prompt, json |-> <<>>]]>>]

\* Reading completion.choices[0].message of an empty choices array throws.
OpenRouterThrowsOnRead(completion) == completion.choices = <<>>

OpenRouterResult(completion) ==
    LET message == completion.choices[1].message
    IN  [text |-> IF message # <<>> /\ HasText(message[1].content)
                  THEN message[1].content[1] ELSE <<>>,
         usage |->
            IF completion.usage = <<>> THEN <<>>
            ELSE Some([input |-> completion.usage[1].prompt_tokens,
                       output |-> completion.usage[1].completion_tokens,
                       total |-> completion.usage[1].total_tokens])]

OpenRouterError(params, err) ==
    [prefix |-> "OpenRouter Error", model |-> params.model,
     detail |-> IF err.error # <<>> /\ HasText(err.error[1].message)
                THEN err.error[1].message[1]
                ELSE IF HasText(err.message) THEN err.message[1]
                ELSE <<"Unknown error">>]

TypeError == [message |-> Some(<<"TypeError">>), error |-> <<>>]

\* ----- the call as steps

\* The token counters a provider reported, under provider-neutral names
\* (<<>>: the response has no accounting block).
GoogleAccounting(response) ==
    IF response.usageMetadata = <<>> THEN <<>>
    ELSE Some([prompt |-> response.usageMetadata[1].promptTokenCount,
               completion |-> response.usageMetadata[1].candidatesTokenCount,
               total |-> response.usageMetadata[1].totalTokenCount])

OpenRouterAccounting(completion) ==
    IF completion.usage = <<>> THEN <<>>
    ELSE Some([prompt |-> completion.usage[1].prompt_tokens,
               completion |-> completion.usage[1].completion_tokens,
               total |-> completion.usage[1].total_tokens])

Call(provider, params, request) ==
    [provider |-> provider, params |-> params, request |-> request,
     status |-> "pending", accounting |-> <<>>, result |-> <<>>, thrown |-> <<>>]

AppUnchanged ==
    UNCHANGED <<inputCode, result, analysisStep, error, modelConfig, apiKeys,
                showSettingsModal, partialPlan, showDependencyModal,
                preloadedDependencies, logs, fileContents, environment, runs, nRuns,
                nGestures>>

\* generateContent up to its await: the request is built and sent.
GoogleGenerateContent(params) ==
    /\ clientCall = <<>>
    /\ clientCall' = Some(Call("google", params, GoogleRequest(params)))
    /\ AppUnchanged

OpenRouterGenerateContent(params) ==
    /\ clientCall = <<>>
    /\ clientCall' = Some(Call("openrouter", params, OpenRouterRequest(params)))
    /\ AppUnchanged

Pending(provider) ==
    /\ clientCall # <<>>
    /\ clientCall[1].provider = provider
    /\ clientCall[1].status = "pending"

GoogleResolves(response) ==
    /\ Pending("google")
    /\ clientCall' = Some([clientCall[1] EXCEPT !.status = "returned",
                                                !.accounting = GoogleAccounting(response),
                                                !.result = Some(GoogleResult(response))])
    /\ AppUnchanged

GoogleRejects(err) ==
    /\ Pending("google")
    /\ clientCall' = Some([clientCall[1] EXCEPT
                              !.status = "threw",
                              !.thrown = Some(GoogleError(clientCall[1].params, err))])
    /\ AppUnchanged

OpenRouterResolves(completion) ==
    /\ Pending("openrouter")
    /\ clientCall' =
          IF OpenRouterThrowsOnRead(completion)
          THEN Some([clientCall[1] EXCEPT
                        !.status = "threw",
                        !.thrown = Some(OpenRouterError(clientCall[1].params, TypeError))])
          ELSE Some([clientCall[1] EXCEPT
                        !.status = "returned",
                        !.accounting = OpenRouterAccounting(completion),
                        !.result = Some(OpenRouterResult(completion))])
    /\ AppUnchanged

OpenRouterRejects(err) ==
    /\ Pending("openrouter")
    /\ clientCall' = Some([clientCall[1] EXCEPT
                              !.status = "threw",
                              !.thrown = Some(OpenRouterError(clientCall[1].params, err))])
    /\ AppUnchanged

NextClient ==
    \/ \E params \in GenerateContentParams : GoogleGenerateContent(params)
    \/ \E params \in GenerateContentParams : OpenRouterGenerateContent(params)
    \/ \E response \in GoogleResponses : GoogleResolves(response)
    \/ \E e \in ProviderErrors : GoogleRejects(e)
    \/ \E completion \in Completions : OpenRouterResolves(completion)
    \/ \E e \in ProviderErrors : OpenRouterRejects(e)

\* One call of one client, from any parameters to its result or error.
SpecClient == Init /\ [][NextClient]_vars

\* ------------------------------------------------------- reading the runs
Last(q) == q[Len(q)]
Started(r) == runs[r].pc # "unused"
InFlight(r) == runs[r].pc \in Stages
RequestedStages(r) == {runs[r].requests[i].stage : i \in 1..Len(runs[r].requests)}
StageOrder == <<"ANALYST", "ARCHITECT", "CODER", "AUDITOR", "COMPLETE">>
StageIndex(stage) == CHOOSE i \in 1..Len(StageOrder) : StageOrder[i] = stage
StepIndex(step) == CHOOSE i \in 1..Len(Steps) : Steps[i] = step
ErrorEntries(r) == SelectSeq(runs[r].logged, LAMBDA e : e.type = "error")
\* the response texts run r received for a stage
ResponsesOf(r, stage) ==
    {runs[r].responses[i].text :
        i \in {j \in 1..Len(runs[r].responses) : runs[r].responses[j].stage = stage}}
RequestsOf(r, stage) == SelectSeq(runs[r].requests, LAMBDA q : q.stage = stage)
\* the valid entries (non-empty filename and content) of the top-level files
\* array of the cleaned text, in order; none when the text is no such JSON
ValidEntries(text) ==
    LET parsed == JsonParse(cleanLlmOutput(text))
    IN  IF HasField(parsed, "files")
        THEN SelectSeq(parsed.fields.files,
                       LAMBDA f : f # JNull /\ f.filename # <<>> /\ f.content # <<>>)
        ELSE <<>>
\* index i of t lies inside a think block: after an opening marker and
\* before the first closing marker that follows it
InThink(t, i) ==
    \E a \in 1..i : \E z \in (i + 1)..Len(t) :
        /\ StartsWithAt(t, a, ThinkOpen)
        /\ a + Len(ThinkOpen) <= i
        /\ StartsWithAt(t, z, ThinkClose)
        /\ \A j \in (a + Len(ThinkOpen))..(z - 1) : ~StartsWithAt(t, j, ThinkClose)
\* the heading+fence file blocks of a text: where each starts, and which
BlockOccurrences(text) ==
    {o \in (1..Len(text)) \X FileBlocks : StartsWithAt(text, o[1], Block(o[2]))}

\* The dependency modal only ever offers the Plan of a parked call.
ResumeTargetParked ==
    DependencyModalShown => runs[partialPlan.id].pc = "parked"

\* ----------------------------------------------------------------- claims
\* C1: a run whose Analyst Plan has an empty or absent required_files goes
\* from ANALYST straight to ARCHITECT: it never writes WAITING_FOR_USER, never
\* parks, and never puts its Plan up in the dependency modal.
C1_NoDepsGoesToArchitect ==
    \A r \in RunIds :
        (/\ runs[r].plan # Null
         /\ \/ ~HasField(runs[r].plan.value, "required_files")
            \/ runs[r].plan.value.fields.required_files = <<>>) =>
            /\ "WAITING_FOR_USER" \notin SeqToSet(runs[r].written)
            /\ runs[r].pc # "parked"
            /\ partialPlan # runs[r].plan
            /\ Len(runs[r].emitted) >= 2
            /\ SubSeq(runs[r].emitted, 1, 2) = <<"ANALYST", "ARCHITECT">>
            /\ runs[r].allContext = ("main.legacy" :> runs[r].mainCode)

C1_Witness ==
    \E r \in RunIds :
        /\ runs[r].plan # Null
        /\ ~HasField(runs[r].plan.value, "required_files")
        /\ "ARCHITECT" \in RequestedStages(r)

\* C2 (as claimed): a Plan with required files parks the run before any
\* Architect request; after the resume the Architect's File Map holds
\* 'main.legacy' mapped to the source text and every supplied entry.
C2_ResumeKeepsPrimaryEntry ==
    \A r \in RunIds :
        /\ (runs[r].pc = "parked") =>
              /\ HasField(runs[r].plan.value, "required_files")
              /\ runs[r].plan.value.fields.required_files # <<>>
              /\ "ARCHITECT" \notin RequestedStages(r)
        /\ (runs[r].plan # Null /\ HasField(runs[r].plan.value, "required_files")
              /\ runs[r].plan.value.fields.required_files # <<>>
              /\ "ARCHITECT" \in SeqToSet(runs[r].emitted)) =>
              /\ "main.legacy" \in DOMAIN runs[r].allContext
              /\ runs[r].allContext["main.legacy"] = runs[r].submitInput
              /\ \A f \in DOMAIN runs[r].supplied :
                    /\ f \in DOMAIN runs[r].allContext
                    /\ runs[r].allContext[f] = runs[r].supplied[f]

\* C3 (as claimed): a run ended by a failed provider call has written ERROR
\* and has logged exactly one 'error' entry, tagged with the failing stage.
C3_ProviderFailureLogsOneError ==
    \A r \in RunIds :
        (runs[r].failure # Null /\ runs[r].failure.cause = "ProviderError") =>
            /\ Last(runs[r].written) = "ERROR"
            /\ Len(ErrorEntries(r)) = 1
            /\ ErrorEntries(r)[1].step = runs[r].failure.stage

C5_CompleteAndErrorTerminal ==
    \A r \in RunIds :
        /\ "COMPLETE" \in SeqToSet(runs[r].emitted) =>
              /\ Last(runs[r].emitted) = "COMPLETE"
              /\ runs[r].pc = "resolved"
              /\ runs[r].returned # Null
        /\ "ERROR" \in SeqToSet(runs[r].emitted) =>
              /\ Last(runs[r].emitted) = "ERROR"
              /\ Cardinality({i \in 1..Len(runs[r].emitted) :
                                 runs[r].emitted[i] = "ERROR"}) = 1

\* C6 (as claimed): except when Start begins a new run, analysisStep never
\* moves backward in the order IDLE, ANALYST, WAITING_FOR_USER, ARCHITECT,
\* CODER, AUDITOR, COMPLETE, ERROR.
C6_StepOnlyForward ==
    [][nRuns' = nRuns => StepIndex(analysisStep') >= StepIndex(analysisStep)]_vars

\* C7 (as claimed): at most one provider request is in flight.
C7_OneRequestInFlight ==
    Cardinality({r \in RunIds : InFlight(r)}) <= 1

\* C8 (as claimed): after handleReset found a request in flight, and until
\* the next start, the stage is IDLE, the log is empty and the result is null.
C8_AbandonedRunHasNoEffect ==
    (\E r \in RunIds : runs[r].abandonedAt = nRuns /\ nRuns > 0) =>
        /\ analysisStep = "IDLE"
        /\ logs = <<>>
        /\ result = Null

\* C9 (as claimed): while a run is in flight and no new run starts, every
\* step leaves the log as it is or extends it at its end.
C9_LogAppendOnly ==
    [][((\E r \in RunIds : InFlight(r)) /\ nRuns' = nRuns) =>
          /\ Len(logs') >= Len(logs)
          /\ SubSeq(logs', 1, Len(logs)) = logs]_vars

\* C10: a stage whose provider has no credential (no session key, no stored
\* key) issues no request: the run reports ERROR and its entry point throws
\* the missing-key failure; every request that is issued carries a key.
C10_NoCredentialNoRequest ==
    \A r \in RunIds :
        /\ \A i \in 1..Len(runs[r].requests) : runs[r].requests[i].apiKey # NoKey
        /\ InFlight(r) =>
              resolveApiKey(runs[r].modelConfig[runs[r].pc].provider, runs[r].apiKeys,
                            environment.ls, environment.pe) # NoKey
        /\ (runs[r].failure # Null /\ runs[r].failure.cause = "Missing API Key") =>
              /\ runs[r].failure.stage \notin RequestedStages(r)
              /\ Last(runs[r].emitted) = "ERROR"
              /\ runs[r].rejected = "Missing API Key"
              /\ runs[r].pc = "rejected"

C10_Witness ==
    \E r \in RunIds :
        /\ runs[r].failure # Null
        /\ runs[r].failure.cause = "Missing API Key"
        /\ runs[r].failure.stage = "AUDITOR"

\* C11: a run whose Coder response yields no file entry (neither from the
\* JSON strategy nor from the heading+fence scan) has failed at the Coder
\* stage: it reported ERROR last, its entry point threw the extraction error,
\* it issued no Auditor request and exactly one Coder request.
C11_NoEntriesFailsCoder ==
    \A r \in RunIds : \A text \in ResponsesOf(r, "CODER") :
        DOMAIN CoderExtract(text).fileMap = {} =>
            /\ runs[r].pc = "rejected"
            /\ runs[r].failure = [stage |-> "CODER",
                                  cause |-> "Coder failed to generate files."]
            /\ runs[r].rejected = "Coder failed to generate files."
            /\ Last(runs[r].emitted) = "ERROR"
            /\ "COMPLETE" \notin SeqToSet(runs[r].emitted)
            /\ RequestsOf(r, "AUDITOR") = <<>>
            /\ Len(RequestsOf(r, "CODER")) = 1
            /\ runs[r].generatedFiles = EmptyFileMap

C11_Witness ==
    \E r \in RunIds : \E text \in ResponsesOf(r, "CODER") :
        /\ DOMAIN CoderExtract(text).fileMap = {}
        /\ \E i \in 1..Len(text) : StartsWithAt(text, i, ThinkOpen)
        /\ \E i \in 1..Len(text) : StartsWithAt(text, i, Fence)
        /\ runs[r].pc = "rejected"

\* C12 (as claimed): a Coder response whose cleaned text is JSON with n >= 1
\* valid entries in its files array gives a File Map of exactly those
\* entries (an entry given twice counted once), and the regex scan does not
\* run.
C12_StrictEntriesExactly ==
    \A r \in RunIds : \A text \in ResponsesOf(r, "CODER") :
        LET valid == ValidEntries(text)
        IN  Len(valid) >= 1 =>
                /\ ~runs[r].scanned
                /\ Cardinality(DOMAIN runs[r].generatedFiles)
                      = Cardinality(SeqToSet(valid))
                /\ \A i \in 1..Len(valid) :
                      /\ valid[i].filename \in DOMAIN runs[r].generatedFiles
                      /\ runs[r].generatedFiles[valid[i].filename] = valid[i].content

\* C13 (as claimed): a Coder response without strict entries and with n >= 1
\* heading+fence blocks is scanned, and the File Map holds one entry per
\* block (a block given twice counted once): the heading's file name mapped
\* to the block's content.
C13_OneEntryPerBlock ==
    \A r \in RunIds : \A text \in ResponsesOf(r, "CODER") :
        LET blocks == BlockOccurrences(text)
        IN  (Len(ValidEntries(text)) = 0 /\ blocks # {}) =>
                /\ runs[r].scanned
                /\ Cardinality(DOMAIN runs[r].generatedFiles)
                      = Cardinality({o[2] : o \in blocks})
                /\ \A o \in blocks :
                      /\ o[2].name \in DOMAIN runs[r].generatedFiles
                      /\ runs[r].generatedFiles[o[2].name] = o[2].content

\* C14 (as claimed): cleaning is idempotent: the architecture text a run
\* keeps, which is the cleaned Architect response, is left as it is by
\* cleaning it again.
C14_CleanIdempotent ==
    \A r \in RunIds :
        ResponsesOf(r, "ARCHITECT") # {} =>
            cleanLlmOutput(runs[r].architecture) = runs[r].architecture

\* C15 (as claimed): text inside a think block of the Coder response reaches
\* no file name and no content of the File Map: a content piece (s, x or y)
\* that the response holds only inside think blocks occurs nowhere in the
\* File Map.
C15_ThinkNeverReachesFileMap ==
    \A r \in RunIds : \A text \in ResponsesOf(r, "CODER") :
        \A c \in SeqToSet(text) \cap {"s", "x", "y"} :
            (\A i \in 1..Len(text) : text[i] = c => InThink(text, i)) =>
                \A n \in DOMAIN runs[r].generatedFiles :
                    c \notin SeqToSet(n) \cup SeqToSet(runs[r].generatedFiles[n])

\* The translated tree out mirrors the schema tree: every OBJECT node carries
\* additionalProperties = false, and the required list, the enum values, the
\* property keys and the nesting are those of the input, node by node.
RECURSIVE MirrorsStrict(_, _)
MirrorsStrict(schema, out) ==
    /\ schema.type = "OBJECT" => out.additionalProperties = Some(FALSE)
    /\ out.required = schema.required
    /\ out.enum = schema.enum
    /\ (out.properties = <<>>) = (schema.properties = <<>>)
    /\ schema.properties # <<>> =>
          /\ DOMAIN out.properties[1] = DOMAIN schema.properties[1]
          /\ \A key \in DOMAIN schema.properties[1] :
                MirrorsStrict(schema.properties[1][key], out.properties[1][key])
    /\ (out.items = <<>>) = (schema.items = <<>>)
    /\ schema.items # <<>> => MirrorsStrict(schema.items[1], out.items[1])

\* The schema the OpenRouter client serialized into its system message.
SentJsonSchema == clientCall[1].request.messages[1].content.json

\* An OBJECT node at any depth below an ARRAY node's items.
RECURSIVE HasObjectInItems(_, _)
HasObjectInItems(schema, inItems) ==
    \/ inItems /\ schema.type = "OBJECT"
    \/ schema.items # <<>> /\ HasObjectInItems(schema.items[1], TRUE)
    \/ /\ schema.properties # <<>>
       /\ \E key \in DOMAIN schema.properties[1] :
             HasObjectInItems(schema.properties[1][key], inItems)

\* C16: for every well-formed schema translated by mapToJsonSchema, every
\* OBJECT node at any depth (inside ARRAY items too) carries
\* additionalProperties = false, and the translated tree has the property
\* keys, required lists, enum values and nesting of the input.
C16_JsonSchemaStrictAndFaithful ==
    (/\ clientCall # <<>>
     /\ clientCall[1].provider = "openrouter"
     /\ SentJsonSchema # <<>>
     /\ WellFormed(clientCall[1].params.responseSchema[1]))
    => MirrorsStrict(clientCall[1].params.responseSchema[1], SentJsonSchema[1])

\* C16 witness: a well-formed schema with an OBJECT node of two keys and a
\* required list inside the items of an ARRAY was translated.
C16_Witness ==
    /\ clientCall # <<>>
    /\ clientCall[1].provider = "openrouter"
    /\ SentJsonSchema # <<>>
    /\ WellFormed(clientCall[1].params.responseSchema[1])
    /\ clientCall[1].params.responseSchema[1].type = "ARRAY"
    /\ clientCall[1].params.responseSchema[1].items[1].type = "OBJECT"
    /\ clientCall[1].params.responseSchema[1].items[1].required = Some(<<"p", "q">>)
    /\ HasObjectInItems(clientCall[1].params.responseSchema[1].items[1].properties[1]["p"],
                        TRUE)
    /\ SentJsonSchema[1].items[1].additionalProperties = Some(FALSE)

\* C17: the credential of every request is the session key of the stage's
\* provider when one is given; only when none is given it is the stored key
\* (the localStorage entry, else the build environment's key). The stored key
\* is never used while a session key of that provider is present.
C17_SessionKeyBeforeStoredKey ==
    \A r \in RunIds : \A i \in 1..Len(runs[r].requests) :
        LET req == runs[r].requests[i]
            stored == IF environment.ls[req.provider] # NoKey
                      THEN environment.ls[req.provider]
                      ELSE environment.pe[req.provider]
        IN  /\ req.sessionKey # NoKey => req.apiKey = req.sessionKey
            /\ req.sessionKey = NoKey => req.apiKey = stored /\ stored # NoKey

\* C17 witness: one run issued a request with the session key although a
\* different stored key of that provider exists, and a request with the
\* stored key for a provider without session key.
C17_Witness ==
    \E r \in RunIds : \E i, j \in 1..Len(runs[r].requests) :
        /\ runs[r].requests[i].sessionKey # NoKey
        /\ environment.ls[runs[r].requests[i].provider] # NoKey
        /\ environment.ls[runs[r].requests[i].provider] # runs[r].requests[i].sessionKey
        /\ runs[r].requests[i].apiKey = runs[r].requests[i].sessionKey
        /\ runs[r].requests[j].sessionKey = NoKey
        /\ runs[r].requests[j].apiKey = environment.ls[runs[r].requests[j].provider]

\* The Plan the Analyst stage of run r produced from the response it received
\* (runAnalyst parses the cleaned text, '{}' for an empty response).
AnalystPlanOf(r) ==
    LET text == runs[r].responses[1].text
    IN  [id |-> r,
         value |-> JsonParse(cleanLlmOutput(IF text = <<>> THEN <<DocEmptyObject>>
                                            ELSE text))]

IsAnalystEntry(e) == e.step = "ANALYST"

\* C18: the Plan of a run is the one its Analyst stage produced and nothing
\* changes it: the Architect and Coder requests carry that Plan value and so
\* does the final result. The Analyst stage runs once: its request is the
\* run's first and only Analyst request and its log entries precede every
\* other entry of the run, so after WAITING_FOR_USER the resumed run issues
\* no Analyst request and logs no Analyst entry; its next request is the
\* Architect's.
C18_PlanFixedAndAnalystOnce ==
    \A r \in RunIds :
        LET reqs == runs[r].requests
            logged == runs[r].logged
        IN  /\ \A i \in 1..Len(reqs) :
                  /\ (reqs[i].stage = "ANALYST") = (i = 1)
                  /\ reqs[i].stage \in {"ARCHITECT", "CODER"} =>
                        reqs[i].plan = AnalystPlanOf(r)
            /\ Len(reqs) >= 2 => reqs[2].stage = "ARCHITECT"
            /\ runs[r].returned # Null => runs[r].returned.plan = AnalystPlanOf(r)
            /\ \A i, j \in 1..Len(logged) :
                  (i < j /\ IsAnalystEntry(logged[j])) => IsAnalystEntry(logged[i])
            /\ "WAITING_FOR_USER" \in SeqToSet(runs[r].written) =>
                  /\ Len(SelectSeq(logged, IsAnalystEntry)) = 2
                  /\ Len(SelectSeq(reqs, LAMBDA q : q.stage = "ANALYST")) = 1

\* C18 witness: a run that waited for the user's files, was resumed and
\* returned its result with the Plan that lists the required files.
C18_Witness ==
    \E r \in RunIds :
        /\ "WAITING_FOR_USER" \in SeqToSet(runs[r].written)
        /\ runs[r].returned # Null
        /\ runs[r].returned.plan.value.fields.required_files # <<>>
        /\ Len(runs[r].requests) = 4

\* Whether a structured stage's extraction succeeds on a response text:
\* JSON.parse of the cleaned text for the Analyst and the Auditor, a
\* non-empty File Map for the Coder.
ExtractionSucceeds(stage, text) ==
    IF stage = "CODER" THEN ~CoderExtract(text).failed
    ELSE JsonParse(cleanLlmOutput(IF text = <<>> THEN <<DocEmptyObject>> ELSE text))
            # JSyntaxError

\* the types of the entries run r logged for a stage, in order
EntryTypes(r, stage) ==
    LET entries == SelectSeq(runs[r].logged, LAMBDA e : e.step = stage)
    IN  [i \in 1..Len(entries) |-> entries[i].type]

\* C19 (as claimed): a structured stage (Analyst, Coder, Auditor) logs a
\* 'prompt' entry before the provider call and, once the call has returned,
\* exactly one of a 'response' entry (extraction succeeded) or an 'error'
\* entry (extraction failed): never a response entry for a response whose
\* extraction fails.
C19_ResponseOrErrorEntry ==
    \A r \in RunIds : \A i \in 1..Len(runs[r].responses) :
        LET stage == runs[r].responses[i].stage
            types == EntryTypes(r, stage)
            outcome == SelectSeq(types, LAMBDA t : t \in {"response", "error"})
        IN  stage \in {"ANALYST", "CODER", "AUDITOR"} =>
               /\ types # <<>> /\ types[1] = "prompt"
               /\ outcome = IF ExtractionSucceeds(stage, runs[r].responses[i].text)
                             THEN <<"response">> ELSE <<"error">>

\* The letters of 'gemma' in either case, and an identifier that contains
\* them in a row.
GemmaLetters == <<{"g", "G"}, {"e", "E"}, {"m", "M"}, {"m", "M"}, {"a", "A"}>>
NamesGemma(model) ==
    \E i \in 1..Len(model) :
        /\ i + 4 <= Len(model)
        /\ \A k \in 1..5 : model[i + k - 1] \in GemmaLetters[k]

\* C20: a request of the Google client with a (non-empty) system instruction
\* has the instruction folded into the prompt body as a prefixed block and no
\* systemInstruction in its configuration when the model identifier contains
\* 'gemma' in any letter case; otherwise the configuration carries the
\* instruction and the prompt body is the prompt. Without a system
\* instruction the prompt is sent unchanged, whatever the model.
C20_GemmaFoldsInstruction ==
    (clientCall # <<>> /\ clientCall[1].provider = "google") =>
        LET params == clientCall[1].params
            request == clientCall[1].request
            given == params.systemInstruction # <<>> /\ params.systemInstruction[1] # <<>>
        IN  /\ request.model = params.model
            /\ (given /\ NamesGemma(params.model)) =>
                  /\ request.contents =
                        <<"SYSTEM INSTRUCTION: ">> \o params.systemInstruction[1]
                            \o <<"\n\nUSER PROMPT: ">> \o params.prompt
                  /\ request.config.systemInstruction = <<>>
            /\ (given /\ ~NamesGemma(params.model)) =>
                  /\ request.contents = params.prompt
                  /\ request.config.systemInstruction = params.systemInstruction
            /\ ~given =>
                  /\ request.contents = params.prompt
                  /\ request.config.systemInstruction = <<>>

\* C20 witness: a request for a model written 'GEMMA-3' with a system
\* instruction was sent with the instruction in front of the prompt.
C20_Witness ==
    /\ clientCall # <<>>
    /\ clientCall[1].provider = "google"
    /\ clientCall[1].params.model = <<"G", "E", "M", "M", "A", "-", "3">>
    /\ clientCall[1].params.systemInstruction = Some(<<"s">>)
    /\ clientCall[1].request.contents[1] = "SYSTEM INSTRUCTION: "
    /\ Len(clientCall[1].request.contents) = 4

\* C21 (as claimed): a request of the OpenRouter client that carries a
\* response schema has a system message whose text ends with the raw-JSON
\* directive followed by the schema heading and the serialized translation of
\* that schema; the outgoing request holds the model and the messages only
\* (no response_format, no schema parameter).
C21_SchemaTravelsInSystemText ==
    (/\ clientCall # <<>>
     /\ clientCall[1].provider = "openrouter"
     /\ clientCall[1].params.responseSchema # <<>>) =>
        LET request == clientCall[1].request
            content == request.messages[1].content
            tail == CriticalInstruction \o SchemaToFollow
        IN  /\ DOMAIN request = {"model", "messages"}
            /\ request.messages[1].role = "system"
            /\ Len(content.text) >= Len(tail)
            /\ SubSeq(content.text, Len(content.text) - Len(tail) + 1, Len(content.text))
                  = tail
            /\ content.json # <<>>
            /\ content.json[1].type = LowerType(clientCall[1].params.responseSchema[1].type)

\* The same accounting data as each provider would report it.
AsGoogleResponse(accounting) ==
    [text |-> Some(<<"r">>),
     usageMetadata |->
        IF accounting = <<>> THEN <<>>
        ELSE Some([promptTokenCount |-> accounting[1].prompt,
                   candidatesTokenCount |-> accounting[1].completion,
                   totalTokenCount |-> accounting[1].total])]

AsCompletion(accounting) ==
    [choices |-> <<[message |-> Some([content |-> Some(<<"r">>)])]>>,
     usage |->
        IF accounting = <<>> THEN <<>>
        ELSE Some([prompt_tokens |-> accounting[1].prompt,
                   completion_tokens |-> accounting[1].completion,
                   total_tokens |-> accounting[1].total])]

\* C22 (as claimed): the usage a client returned is the usage either client
\* returns for the same accounting data (all counters present, a counter
\* absent, no accounting block): one canonical {input, output, total} value,
\* with an absent counter represented the same way by both.
C22_OneUsageConvention ==
    (clientCall # <<>> /\ clientCall[1].status = "returned") =>
        /\ clientCall[1].result[1].usage
              = GoogleResult(AsGoogleResponse(clientCall[1].accounting)).usage
        /\ clientCall[1].result[1].usage
              = OpenRouterResult(AsCompletion(clientCall[1].accounting)).usage

PlanFieldNames ==
    {"summary", "variables", "security_concerns", "migration_strategy", "required_files"}

\* C23 (as claimed): a Plan the Analyst stage returned has all five required
\* fields; no Plan that lacks one (from an empty response or a response
\* without the field) is stored for the resume or passed to a later stage.
C23_PlanHasFiveFields ==
    \A r \in RunIds :
        /\ runs[r].plan # Null =>
              /\ runs[r].plan.value.kind = "object"
              /\ PlanFieldNames \subseteq DOMAIN runs[r].plan.value.fields
        /\ \A i \in 1..Len(runs[r].requests) :
              runs[r].requests[i].plan # Null =>
                 PlanFieldNames \subseteq DOMAIN runs[r].requests[i].plan.value.fields

\* C24 (as claimed): a run that ends in a missing-credential failure has
\* issued no provider request: the credentials of all stages' providers are
\* checked before the first request is spent.
C24_MissingKeySpendsNoRequest ==
    \A r \in RunIds :
        (runs[r].failure # Null /\ runs[r].failure.cause = "Missing API Key") =>
            runs[r].requests = <<>>

\* An entry of a File Map that the strict JSON strategy can have written:
\* an element of the files array of the cleaned text with that name and content.
IsStrictEntry(text, name, content) ==
    LET parsed == JsonParse(cleanLlmOutput(text))
    IN  /\ HasField(parsed, "files")
        /\ \E i \in 1..Len(parsed.fields.files) :
              /\ parsed.fields.files[i] # JNull
              /\ parsed.fields.files[i].filename = name
              /\ parsed.fields.files[i].content = content

\* An entry that the heading+fence scan of the raw text writes.
IsScanEntry(text, name, content) ==
    LET scan == RegexFallback(text, 1, EmptyFileMap)
    IN  name \in DOMAIN scan /\ scan[name] = content

\* C25 (as claimed): the File Map the Coder stage returned comes from one
\* extraction strategy: all its entries are entries of the strict JSON
\* extraction or all are entries of the heading+fence scan, also when the
\* files array has a malformed element.
C25_OneStrategyFillsFileMap ==
    \A r \in RunIds :
        ("AUDITOR" \in SeqToSet(runs[r].emitted)) =>
            \A text \in ResponsesOf(r, "CODER") :
                LET fileMap == runs[r].generatedFiles
                IN  \/ \A n \in DOMAIN fileMap : IsStrictEntry(text, n, fileMap[n])
                    \/ \A n \in DOMAIN fileMap : IsScanEntry(text, n, fileMap[n])

C27_ResumeUsesAnalyzedSource ==
    \A r \in RunIds :
        (/\ "WAITING_FOR_USER" \in SeqToSet(runs[r].written)
         /\ "ARCHITECT" \in SeqToSet(runs[r].emitted)
         /\ "main.legacy" \notin DOMAIN runs[r].supplied) =>
            /\ runs[r].plan = AnalystPlanOf(r)
            /\ "main.legacy" \in DOMAIN runs[r].allContext
            /\ runs[r].allContext["main.legacy"] = runs[r].mainCode

\* C28 (as claimed): Cancel leaves the page IDLE with the modal closed; the
\* run whose Plan was cancelled stays parked with its Analyst request as its
\* only request, its Plan is never offered again, and whenever the modal is
\* open after a Cancel it offers the Plan of a run started after that Cancel.
C28_CancelledPlanStaysCancelled ==
    [][/\ \A r \in RunIds :
             (runs[r].cancelledAt = 0 /\ runs'[r].cancelledAt # 0) =>
                 analysisStep' = "IDLE" /\ ~showDependencyModal'
       /\ \A r \in RunIds :
             runs'[r].cancelledAt # 0 =>
                 /\ runs'[r].pc = "parked"
                 /\ Len(runs'[r].requests) = 1
                 /\ (showDependencyModal' /\ partialPlan' # Null) =>
                       partialPlan'.id > runs'[r].cancelledAt]_vars

\* C29: a run whose Architect stage started through the resume path (the run
\* waited for the user's files first) received a File Map that has, for every
\* filename in its Plan's required_files, an entry whose content is not blank.
C29_ResumeHasAllRequiredFiles ==
    \A r \in RunIds :
        (/\ "WAITING_FOR_USER" \in SeqToSet(runs[r].written)
         /\ "ARCHITECT" \in SeqToSet(runs[r].emitted)) =>
            \A i \in 1..Len(runs[r].plan.value.fields.required_files) :
                LET f == runs[r].plan.value.fields.required_files[i]
                IN  /\ f \in DOMAIN runs[r].allContext
                    /\ Trim(runs[r].allContext[f]) # <<>>

\* C29 witness: a resumed run issued its Architect request with the required
\* file as the user typed it in the modal.
C29_Witness ==
    \E r \in RunIds :
        /\ "WAITING_FOR_USER" \in SeqToSet(runs[r].written)
        /\ "ARCHITECT" \in RequestedStages(r)
        /\ runs[r].plan.value.fields.required_files = <<"includes/auth_logic.php">>
        /\ runs[r].allContext["includes/auth_logic.php"] = <<"d">>

\* C30 (as claimed): whenever the page holds a result, its current stage is
\* COMPLETE.
C30_ResultOnlyWhenComplete ==
    result # Null => analysisStep = "COMPLETE"

====
